---- MODULE Spec2Model ----
(***************************************************************************)
(* The dependency-tracking engine of src/src/hazmat.ts as a state machine. *)
(* The engine is synchronous and re-entrant, so every exported primitive   *)
(* is one action whose effect is computed by operators that thread the     *)
(* engine's heap (a record, "s") through the calls the primitive makes.    *)
(* A thrown fault is the field s.exc, a returned value the field s.ret.    *)
(***************************************************************************)
EXTENDS Integers, Sequences, FiniteSets, TLC

\* ---------------------------------------------------------------- bounds
MaxVal == 2
MaxCount == 2
MaxStack == 6

\* ----------------------------------------------------------------- nodes
Cells == {"v", "w"}
Derived == {"d1", "d2", "d3"}
Effects == {"e1", "e2"}
Sources == Cells \cup Derived
Targets == Derived \cup Effects
Val == 0..MaxVal

NONE == "null"
UNDEF == "undefined"
TOMB == "deleted"
NoExc == "none"
NullV == -1

CyclicDependency == "Cyclic dependency."
SetInDerived == "Cannot set value in derived context."
UnwrapUninitialized == "Unwrapping uninitialized cache."
TypeError == "TypeError"
UntrackedInDerived == "Cannot disable tracking in derived context."
EffectInDerived == "Cannot use effect in derived context."
RangeError == "RangeError: Maximum call stack size exceeded"
ClientFault == "fault raised by the client's closure"

\* ------------------------------------------------- the client's closures
\* A derive closure reads a fixed list of sources with getValue and applies
\* a function to the sum of what it read; an effect's closures read a fixed
\* list of sources and hand the values to a callback.
NoReads == [t \in Targets |-> <<>>]
AllSum == [d \in Derived |-> "sum"]

ScenarioNames ==
    {"direct", "derived", "sat", "stable", "chain", "diamond", "partial", "chain3",
     "twocell"}

Topology(sc) ==
    CASE sc = "direct" ->
           [reads |-> [NoReads EXCEPT !["e1"] = <<"v">>], fn |-> AllSum]
      [] sc = "derived" ->
           [reads |-> [NoReads EXCEPT !["d1"] = <<"v">>, !["e1"] = <<"d1">>],
            fn |-> [AllSum EXCEPT !["d1"] = "dbl"]]
      [] sc = "sat" ->
           [reads |-> [NoReads EXCEPT !["d1"] = <<"v">>, !["e1"] = <<"d1">>],
            fn |-> [AllSum EXCEPT !["d1"] = "sat"]]
      [] sc = "stable" ->
           [reads |-> [NoReads EXCEPT !["d1"] = <<"v">>, !["d2"] = <<"d1">>,
                                      !["e1"] = <<"d2">>],
            fn |-> [AllSum EXCEPT !["d1"] = "zero"]]
      [] sc = "chain" ->
           [reads |-> [NoReads EXCEPT !["d1"] = <<"v">>, !["d2"] = <<"d1">>,
                                      !["e1"] = <<"d2">>],
            fn |-> [AllSum EXCEPT !["d1"] = "sat"]]
      [] sc = "diamond" ->
           [reads |-> [NoReads EXCEPT !["d1"] = <<"v">>, !["d2"] = <<"v">>,
                                      !["e1"] = <<"d1", "d2">>],
            fn |-> [AllSum EXCEPT !["d1"] = "dbl", !["d2"] = "quint"]]
      [] sc = "partial" ->
           [reads |-> [NoReads EXCEPT !["d1"] = <<"v">>, !["d2"] = <<"v">>,
                                      !["d3"] = <<"d1", "d2">>, !["e1"] = <<"d3">>],
            fn |-> [AllSum EXCEPT !["d1"] = "zero"]]
      [] sc = "chain3" ->
           [reads |-> [NoReads EXCEPT !["d1"] = <<"v">>, !["d2"] = <<"d1">>,
                                      !["d3"] = <<"d2">>, !["e1"] = <<"d2", "d3">>],
            fn |-> [AllSum EXCEPT !["d1"] = "sat"]]
      [] sc = "twocell" ->
           [reads |-> [NoReads EXCEPT !["e1"] = <<"v">>, !["e2"] = <<"w">>],
            fn |-> AllSum]
      [] sc = "selfcycle" ->
           [reads |-> [NoReads EXCEPT !["d1"] = <<"d1">>, !["e1"] = <<"d1">>],
            fn |-> AllSum]
      [] sc = "cycle2" ->
           [reads |-> [NoReads EXCEPT !["d1"] = <<"d2">>, !["d2"] = <<"d1">>,
                                      !["e1"] = <<"d1">>],
            fn |-> AllSum]
      [] sc = "cycle3" ->
           [reads |-> [NoReads EXCEPT !["d1"] = <<"d2">>, !["d2"] = <<"d3">>,
                                      !["d3"] = <<"d1">>],
            fn |-> AllSum]
      [] sc \in {"dset", "dmake", "duntracked"} ->
           [reads |-> [NoReads EXCEPT !["d1"] = <<"v">>, !["e1"] = <<"w">>],
            fn |-> AllSum]
      [] sc \in {"drun", "dsetnested", "duntrackednested"} ->
           [reads |-> [NoReads EXCEPT !["d1"] = <<"v">>, !["e2"] = <<"v">>,
                                      !["e1"] = <<"w">>],
            fn |-> AllSum]
      [] sc = "euntracked" ->
           [reads |-> [NoReads EXCEPT !["e1"] = <<"v">>, !["e2"] = <<"w">>],
            fn |-> AllSum]
      [] sc = "dupcell" ->
           [reads |-> [NoReads EXCEPT !["e1"] = <<"v", "v">>], fn |-> AllSum]
      [] sc = "dupderived" ->
           [reads |-> [NoReads EXCEPT !["d1"] = <<"v", "v">>, !["e1"] = <<"d1", "d1">>],
            fn |-> AllSum]
      [] sc = "cond" ->
           [reads |-> [NoReads EXCEPT !["d1"] = <<"w">>, !["e1"] = <<"v">>],
            fn |-> [AllSum EXCEPT !["d1"] = "failodd"]]
      [] sc = "dfault" ->
           [reads |-> [NoReads EXCEPT !["d1"] = <<"v">>, !["e1"] = <<"d1">>],
            fn |-> [AllSum EXCEPT !["d1"] = "failodd"]]
      [] sc = "object" ->
           [reads |-> [NoReads EXCEPT !["e1"] = <<"v">>, !["e2"] = <<"v">>],
            fn |-> AllSum]
      [] sc = "relay" ->
           [reads |-> [NoReads EXCEPT !["e1"] = <<"v">>, !["e2"] = <<"w", "v">>],
            fn |-> AllSum]
      [] sc = "relayd" ->
           [reads |-> [NoReads EXCEPT !["e1"] = <<"v">>, !["d1"] = <<"w">>,
                                      !["e2"] = <<"d1">>],
            fn |-> [AllSum EXCEPT !["d1"] = "sat"]]

\* Closures that do more than read: per scenario and target, the statements
\* the closure runs first.  A derived node's closure writes a cell, makes
\* an effect node, calls untracked or runs an effect in its context, whose
\* closure in turn writes or calls untracked.  The effect of "cond" reads
\* v, then w if v is 0 and d1 and v otherwise, then v:
\* () => { if (getValue(v) === 0) getValue(w); else { getValue(d1); getValue(v) }; getValue(v) }
NoStatements == [t \in Targets |-> <<>>]
Statements ==
    [sc \in {"dset", "dmake", "duntracked", "drun", "dsetnested",
             "duntrackednested", "euntracked", "cond", "object"} |->
        CASE sc = "object" ->
               [NoStatements EXCEPT
                   !["e1"] = <<<<"if", "v", 1, <<<<"throw">>>>, <<>>>>>>]
          [] sc = "cond" ->
               [NoStatements EXCEPT
                   !["e1"] = <<<<"if", "v", 0, <<<<"get", "w">>>>,
                                <<<<"get", "d1">>, <<"get", "v">>>>>>>>]
          [] sc = "dset" -> [NoStatements EXCEPT !["d1"] = <<<<"set", "w", 1>>>>]
          [] sc = "dmake" -> [NoStatements EXCEPT !["d1"] = <<<<"make">>>>]
          [] sc = "duntracked" ->
               [NoStatements EXCEPT !["d1"] = <<<<"untracked", <<<<"get", "w">>>>>>>>]
          [] sc = "drun" -> [NoStatements EXCEPT !["d1"] = <<<<"run", "e2">>>>]
          [] sc = "dsetnested" ->
               [NoStatements EXCEPT !["d1"] = <<<<"run", "e2">>>>,
                                    !["e2"] = <<<<"set", "w", 1>>>>]
          [] sc = "duntrackednested" ->
               [NoStatements EXCEPT !["d1"] = <<<<"run", "e2">>>>,
                                    !["e2"] = <<<<"untracked", <<<<"get", "w">>>>>>>>]
          [] sc = "euntracked" ->
               [NoStatements EXCEPT !["e1"] = <<<<"untracked", <<<<"get", "w">>>>>>>>]]

\* The graphs whose effects are Effect objects of index.ts: the notify
\* closure of the node is the one the constructor of Effect builds around
\* the side effect, which is the effect's closure here; the side effect of
\* the first effect raises when v is 1,
\* () => { if (getValue(v) === 1) throw fault; getValue(v); return cleanup }
\* and every side effect returns a cleanup callback.
ObjectScenarios == {"object"}

\* Callbacks that do more than record their arguments: per scenario and
\* effect, the statements notify runs after the reads.  The first effect of
\* "relay" and "relayd" copies v to w:
\* x => { setValue(w, x) }
Callbacks ==
    [sc \in {"relay", "relayd"} |->
        [NoStatements EXCEPT !["e1"] = <<<<"copy", "w", "v">>>>]]

RECURSIVE SumSeq(_)
SumSeq(q) == IF q = <<>> THEN 0 ELSE Head(q) + SumSeq(Tail(q))

\* x * 2, x * 5, x & 0 and x are the tests' derive closures; Math.min(x, 1)
\* is a closure whose value changes on some writes and not on others.
FnApply(kind, x) ==
    CASE kind = "dbl" -> 2 * x
      [] kind = "quint" -> 5 * x
      [] kind = "zero" -> 0
      [] kind = "sat" -> IF x > 1 THEN 1 ELSE x
      [] OTHER -> x

\* A derive closure that raises for some of its inputs:
\* x => { if (x % 2 === 1) throw fault; return x }
FnFaults(kind, x) == kind = "failodd" /\ x % 2 = 1

VARIABLES
    scenario,                    \* which closures the nodes were built with
    value, committedValue,       \* SourceCommon
    targets,                     \* SourceCommon.targets (insertion ordered)
    sources,                     \* TargetCommon.sources
    invalidatedSourcesCount,     \* TargetCommon
    running,                     \* TargetCommon
    rollback,                    \* DerivedNode.rollback
    tracking,                    \* EffectNode.tracking
    currentTarget, sourceIndex,  \* EXECUTION
    status,                      \* UPDATE.status
    uncommittedSources,          \* UPDATE
    invalidatedEffects,          \* UPDATE
    possiblyInvalidatedDerived,  \* UPDATE
    batchDepth,                  \* open batch(run) calls of the client
    opened,                      \* the cells' values when the batch was opened
    effectObjects                \* index.ts: Effect.activeEffects, each
                                 \* Effect's _destructor, the Effects built

vars == <<scenario, value, committedValue, targets, sources,
          invalidatedSourcesCount, running, rollback, tracking, currentTarget,
          sourceIndex, status, uncommittedSources, invalidatedEffects,
          possiblyInvalidatedDerived, batchDepth, opened, effectObjects>>

Reads(t) == Topology(scenario).reads[t]

\* What the closure of target t does before its reads; nothing in the
\* graphs of the tests.
Pre(t) == IF scenario \in DOMAIN Statements THEN Statements[scenario][t] ELSE <<>>
Fn(d) == Topology(scenario).fn[d]

\* What the callback of effect e does with the values it is given.
Post(e) == IF scenario \in DOMAIN Callbacks THEN Callbacks[scenario][e] ELSE <<>>

RECURSIVE ReadsCell(_, _, _)
ReadsCell(t, c, fuel) ==
    \E i \in 1..Len(Reads(t)) :
        \/ Reads(t)[i] = c
        \/ fuel > 0 /\ Reads(t)[i] \in Derived /\ ReadsCell(Reads(t)[i], c, fuel - 1)

UsedTargets == {t \in Targets : Reads(t) # <<>>}
UsedDerived == UsedTargets \cap Derived
UsedEffects == UsedTargets \cap Effects
UsedCells == {c \in Cells : \E t \in UsedTargets : ReadsCell(t, c, 3)}
UsedSources == UsedCells \cup UsedDerived

\* ------------------------------------------- Map, Set and Array of the host
\* A Map or Set iterates in insertion order and its iterators are live: an
\* entry deleted before it is reached is skipped, one added during the walk
\* is reached.  A deleted entry therefore stays as a TOMB until the call of
\* the client that deleted it has returned (Compact), when no iterator is
\* left.
Tomb == [ref |-> TOMB, count |-> 0]

MapIndex(m, k) ==
    IF \E i \in 1..Len(m) : m[i].ref = k
    THEN CHOOSE i \in 1..Len(m) : m[i].ref = k
    ELSE 0

MapGet(m, k) == IF MapIndex(m, k) = 0 THEN 0 ELSE m[MapIndex(m, k)].count

MapSet(m, k, c) ==
    IF MapIndex(m, k) = 0
    THEN Append(m, [ref |-> k, count |-> c])
    ELSE [m EXCEPT ![MapIndex(m, k)].count = c]

MapDelete(m, k) ==
    IF MapIndex(m, k) = 0 THEN m ELSE [m EXCEPT ![MapIndex(m, k)] = Tomb]

MapSize(m) == Cardinality({i \in 1..Len(m) : m[i].ref # TOMB})

MapCompact(m) == SelectSeq(m, LAMBDA e : e.ref # TOMB)

SetHas(q, k) == \E i \in 1..Len(q) : q[i] = k

SetAdd(q, k) == IF SetHas(q, k) THEN q ELSE Append(q, k)

SetDelete(q, k) == [i \in 1..Len(q) |-> IF q[i] = k THEN TOMB ELSE q[i]]

SetCompact(q) == SelectSeq(q, LAMBDA e : e # TOMB)

\* a[i] = x of a JavaScript array, i counted from 1 here: writing past the
\* end leaves holes.
ArraySet(a, i, x) ==
    [j \in 1..(IF i > Len(a) THEN i ELSE Len(a)) |->
        IF j = i THEN x ELSE IF j <= Len(a) THEN a[j] ELSE UNDEF]

\* a.length = n
ArrayResize(a, n) == [j \in 1..n |-> IF j <= Len(a) THEN a[j] ELSE UNDEF]

\* ------------------------------------------------------------- the heap
\* The host's call stack is finite: depth counts the frames of invalidate
\* and uninvalidate on it, the two functions that recurse along the
\* subscriptions, and the call that would be frame MaxStack + 1 raises
\* RangeError.
UninitializedCache(r) ==
    [ref |-> r, type |-> "UNINITIALIZED", value |-> NullV, error |-> NONE]

\* The engine's state as one record, the shape the operators below thread.
\* A Cache object is a record whose field ref tells the node's two possible
\* Cache objects apart: value and committedValue of a derived node hold the
\* same object exactly when their ref is equal.
Heap ==
    [value |-> value, committedValue |-> committedValue, targets |-> targets,
     sources |-> sources, invalidatedSourcesCount |-> invalidatedSourcesCount,
     running |-> running, rollback |-> rollback, tracking |-> tracking,
     currentTarget |-> currentTarget, sourceIndex |-> sourceIndex,
     status |-> status, uncommittedSources |-> uncommittedSources,
     invalidatedEffects |-> invalidatedEffects,
     possiblyInvalidatedDerived |-> possiblyInvalidatedDerived,
     effectObjects |-> effectObjects,
     ret |-> NullV, exc |-> NoExc,
     log |-> <<>>, derives |-> [d \in Derived |-> 0], resolved |-> <<>>,
     trace |-> <<>>, depth |-> 0, tracked |-> <<>>, sched |-> <<>>]

Ok(s) == s.exc = NoExc
Throw(s, e) == [s EXCEPT !.exc = e]
Return(s, x) == [s EXCEPT !.ret = x]

\* Notes that the engine has reached the step e (observation only).
Event(s, e) == [s EXCEPT !.trace = Append(@, e)]

\* Notes that invalidate has left effect pending and invalidated, and that
\* runEffect has found effect invalidated (observation only).
Queued(s, effect) ==
    IF s.invalidatedSourcesCount[effect] > 0
    THEN [s EXCEPT !.sched = Append(@, [op |-> "queue", effect |-> effect])]
    ELSE s
Ran(s, effect) == [s EXCEPT !.sched = Append(@, [op |-> "run", effect |-> effect])]

\* Notes a call of an Effect object's side effect ("body"), of the cleanup
\* callback it holds ("cleanup") or of Effect.errorHandler ("error")
\* (observation only).
Noted(s, op, effect) == [s EXCEPT !.sched = Append(@, [op |-> op, effect |-> effect])]

\* try { body } finally { fin }: s is the state the body left, t the state
\* the finally block left when started from s with the fault put aside.
Finally(s, t) ==
    IF Ok(t) THEN [t EXCEPT !.exc = s.exc, !.ret = s.ret] ELSE t

isInvalidated(s, target) == s.invalidatedSourcesCount[target] > 0

isUncommitted(s, source) ==
    IF source \in Cells
    THEN s.value[source] # s.committedValue[source]
    ELSE s.value[source].ref # s.committedValue[source].ref

isInvalidatedOrUncommitted(s, source) ==
    isUncommitted(s, source) \/ (source \in Derived /\ isInvalidated(s, source))

\* Writes the three fields of the Cache object derived.value holds; the
\* object is also derived.committedValue when the node is committed.
MutateCache(s, derived, ty, v, e) ==
    LET r == s.value[derived].ref
        c == [ref |-> r, type |-> ty, value |-> v, error |-> e]
    IN [s EXCEPT !.value[derived] = c,
                 !.committedValue[derived] =
                     IF @.ref = r THEN c ELSE @]

\* derived.value = { ... }: a new object, distinct from committedValue.
NewCache(s, derived, ty, v, e) ==
    [s EXCEPT !.value[derived] =
        [ref |-> 1 - s.committedValue[derived].ref,
         type |-> ty, value |-> v, error |-> e]]

SetCache(s, derived, ty, v, e) ==
    IF s.status = "BATCHED"
    THEN NewCache(s, derived, ty, v, e)
    ELSE MutateCache(s, derived, ty, v, e)

setDerivedValue(s, derived, v) == SetCache(s, derived, "VALUE", v, NONE)
setDerivedError(s, derived, e) == SetCache(s, derived, "ERROR", NullV, e)
setUninitialized(s, derived) == SetCache(s, derived, "UNINITIALIZED", NullV, NONE)

\* An unwrapCache that hands out the value field whatever the type.
unwrapCache_Unwraps(s, cache) == Return(s, cache.value)

unwrapCache(s, cache) ==
    CASE cache.type = "VALUE" -> Return(s, cache.value)
      [] cache.type = "ERROR" -> Throw(s, cache.error)
      [] OTHER -> Throw(s, UnwrapUninitialized)

\* A subscribe that keeps one subscription per target however often it reads.
subscribe_Once(s, source, target) ==
    [s EXCEPT !.targets[source] = MapSet(@, target, 1)]

subscribe(s, source, target) ==
    LET subscriptionCount == MapGet(s.targets[source], target)
    IN [s EXCEPT !.targets[source] = MapSet(@, target, subscriptionCount + 1)]

\* ------------------------------------------------------------ the engine
RECURSIVE Call(_, _, _)

unsubscribe(s, source, target) ==
    IF source = UNDEF THEN Throw(s, TypeError) ELSE
    LET subscriptionCount == MapGet(s.targets[source], target)
    IN IF subscriptionCount = 0 THEN s
       ELSE IF subscriptionCount > 1
       THEN [s EXCEPT !.targets[source] = MapSet(@, target, subscriptionCount - 1)]
       ELSE LET s1 == [s EXCEPT !.targets[source] = MapDelete(@, target)]
            IN IF source \in Derived THEN Call("checkForDisposal", s1, <<source>>) ELSE s1

\* for (const upstream of derived.sources) unsubscribe(upstream, derived)
disposeLoop(s, derived, i) ==
    IF i > Len(s.sources[derived]) THEN s
    ELSE LET s1 == Call("unsubscribe", s, <<s.sources[derived][i], derived>>)
         IN IF Ok(s1) THEN Call("disposeLoop", s1, <<derived, i + 1>>) ELSE s1

checkForDisposal(s, derived) ==
    IF ~isInvalidated(s, derived) \/ MapSize(s.targets[derived]) > 0 THEN s
    ELSE IF s.status # "INACTIVE"
    THEN [s EXCEPT !.possiblyInvalidatedDerived = SetAdd(@, derived)]
    ELSE LET s1 == Call("disposeLoop", s, <<derived, 1>>)
         IN IF ~Ok(s1) THEN s1
            ELSE Event([setUninitialized(s1, derived) EXCEPT !.sources[derived] = <<>>],
                       "dispose")

cleanupLoop(s, i) ==
    IF i > Len(s.possiblyInvalidatedDerived) THEN s
    ELSE LET derived == s.possiblyInvalidatedDerived[i]
         IN IF derived = TOMB THEN Call("cleanupLoop", s, <<i + 1>>)
            ELSE LET s1 == [s EXCEPT !.possiblyInvalidatedDerived =
                                         SetDelete(@, derived)]
                     s2 == Call("checkForDisposal", s1, <<derived>>)
                 IN IF Ok(s2) THEN Call("cleanupLoop", s2, <<i + 1>>) ELSE s2

cleanupNodes(s) == Call("cleanupLoop", Event(s, "sweep"), <<1>>)

\* for (const source of UPDATE.uncommittedSources) { delete; commit }
commitSources(s) ==
    [Event(s, "commit") EXCEPT !.committedValue =
                  [n \in Sources |->
                      IF SetHas(s.uncommittedSources, n) THEN s.value[n] ELSE @[n]],
              !.uncommittedSources = [i \in 1..Len(@) |-> TOMB]]

\* target.invalidatedSourcesCount += subscriptionCount
invalidateStep(s, target, subscriptionCount) ==
    [s EXCEPT !.invalidatedSourcesCount[target] = @ + subscriptionCount]

\* The walk over source.targets in invalidate; at entry i the pair
\* [targetRef, subscriptionCount] is read before anything is called.
invalidateLoop(s, source, i) ==
    IF i > Len(s.targets[source]) THEN s
    ELSE LET target == s.targets[source][i].ref
             subscriptionCount == s.targets[source][i].count
         IN IF target = TOMB THEN Call("invalidateLoop", s, <<source, i + 1>>)
            ELSE IF target \in Derived
            THEN LET s1 == Call("invalidate", s, <<target>>)
                     s2 == Call("checkForDisposal", s1, <<target>>)
                 IN IF ~Ok(s1) THEN s1
                    ELSE IF ~Ok(s2) THEN s2
                    ELSE Call("invalidateLoop",
                              invalidateStep(s2, target, subscriptionCount),
                              <<source, i + 1>>)
            ELSE Call("invalidateLoop",
                      Queued(invalidateStep(
                                 [s EXCEPT !.invalidatedEffects = SetAdd(@, target)],
                                 target, subscriptionCount),
                             target),
                      <<source, i + 1>>)

invalidate(s, source) ==
    IF s.depth >= MaxStack THEN Throw(s, RangeError)
    ELSE LET s0 == [s EXCEPT !.depth = @ + 1]
             s1 == IF source \in Derived /\ isInvalidated(s0, source) THEN s0
                   ELSE IF source \in Derived /\ isUncommitted(s0, source)
                   THEN Call("rollbackNode", s0, <<source>>)
                   ELSE Call("invalidateLoop", s0, <<source, 1>>)
         IN [s1 EXCEPT !.depth = s.depth]

\* target.invalidatedSourcesCount -= subscriptionCount
uninvalidateStep(s, target, subscriptionCount) ==
    [s EXCEPT !.invalidatedSourcesCount[target] = @ - subscriptionCount]

uninvalidateLoop(s, source, i) ==
    IF i > Len(s.targets[source]) THEN s
    ELSE LET target == s.targets[source][i].ref
             subscriptionCount == s.targets[source][i].count
         IN IF target = TOMB THEN Call("uninvalidateLoop", s, <<source, i + 1>>)
            ELSE IF target \in Derived /\ isUncommitted(s, target)
            THEN LET s1 == Call("rollbackNode", s, <<target>>)
                 IN IF Ok(s1) THEN Call("uninvalidateLoop", s1, <<source, i + 1>>) ELSE s1
            ELSE LET s1 == uninvalidateStep(s, target, subscriptionCount)
                     s2 == IF target \in Derived /\ ~isInvalidated(s1, target)
                           THEN Call("uninvalidate", s1, <<target>>)
                           ELSE s1
                 IN IF Ok(s2) THEN Call("uninvalidateLoop", s2, <<source, i + 1>>) ELSE s2

uninvalidate(s, source) ==
    IF s.depth >= MaxStack THEN Throw(s, RangeError)
    ELSE LET s1 == Call("uninvalidateLoop", [s EXCEPT !.depth = @ + 1], <<source, 1>>)
         IN [s1 EXCEPT !.depth = s.depth]

\* What revalidate notes once it has resolved a derived node: the node,
\* whether it was found unchanged, and every target's count at that moment.
Resolved(s, derived, same) ==
    IF Ok(s)
    THEN [s EXCEPT !.resolved =
             Append(@, [node |-> derived, unchanged |-> same,
                        counts |-> s.invalidatedSourcesCount])]
    ELSE s

\* A revalidate that never finds the recomputed value unchanged.
Unchanged_Never(s, derived, v) == FALSE

\* const unchanged = ... of revalidate, v the value derive returned
Unchanged(s, derived, v) ==
    /\ s.value[derived].type = "VALUE"
    /\ (s.value[derived].value = v \/ ~isInvalidated(s, derived))

revalidate(s, derived) ==
    IF s.value[derived].type # "UNINITIALIZED" /\ ~isInvalidated(s, derived) THEN s
    ELSE LET s1 == Call("runInContext", s, <<derived>>)
             s2 == IF ~Ok(s1) THEN s1
                   ELSE IF Unchanged(s1, derived, s1.ret)
                   THEN Resolved(Call("uninvalidate", s1, <<derived>>), derived, TRUE)
                   ELSE Resolved(setDerivedValue(s1, derived, s1.ret), derived, FALSE)
             c == [s2 EXCEPT !.exc = NoExc]
             s3 == IF Ok(s2) THEN s2
                   ELSE IF c.value[derived].type = "ERROR" /\ ~isInvalidated(c, derived)
                   THEN Call("uninvalidate", c, <<derived>>)
                   ELSE setDerivedError(c, derived, s2.exc)
         IN [s3 EXCEPT !.invalidatedSourcesCount[derived] = 0]

\* for (const targetRef of derived.targets.keys()) of rollback
rollbackTargets(s, derived, i) ==
    IF i > Len(s.targets[derived]) THEN s
    ELSE LET target == s.targets[derived][i].ref
         IN IF target # TOMB /\ target \in Derived /\ isUncommitted(s, target)
            THEN LET s1 == Call("rollbackNode", s, <<target>>)
                 IN IF Ok(s1) THEN Call("rollbackTargets", s1, <<derived, i + 1>>) ELSE s1
            ELSE Call("rollbackTargets", s, <<derived, i + 1>>)

\* function rollback(derived)
rollbackNode(s, derived) ==
    LET s0 == [s EXCEPT !.value[derived] = s.committedValue[derived],
                        !.rollback[derived] = TRUE]
        s1 == Call("runInContext", s0, <<derived>>)
        up == s1.sources[derived]
        f0 == [s1 EXCEPT !.exc = NoExc, !.rollback[derived] = FALSE]
        f1 == IF \E i \in 1..Len(up) : up[i] = UNDEF
              THEN Throw(f0, TypeError)
              ELSE [f0 EXCEPT !.invalidatedSourcesCount[derived] =
                       Cardinality({i \in 1..Len(up) :
                                       isInvalidatedOrUncommitted(f0, up[i])})]
        s2 == Finally(s1, f1)
    IN IF ~Ok(s2) THEN s2
       ELSE IF ~isInvalidated(s2, derived) THEN Call("uninvalidate", s2, <<derived>>)
       ELSE Call("rollbackTargets", s2, <<derived, 1>>)

\* The reads of a closure, in order: getValue(a), getValue(b), ...; the
\* values read are returned as a sequence.
readLoop(s, rd, i, acc) ==
    IF i > Len(rd) THEN Return(s, acc)
    ELSE LET s1 == Call("getValue", s, <<rd[i]>>)
         IN IF Ok(s1) THEN Call("readLoop", s1, <<rd, i + 1, Append(acc, s1.ret)>>) ELSE s1

\* makeEffectNode(notify): the node itself is one of Effects
makeEffectNode(s) ==
    IF s.currentTarget \in Derived THEN Throw(s, EffectInDerived) ELSE s

\* The statements of a closure of the client, run in order until one
\* raises: setValue(c, x), getValue(n), throw, batch(() => ...),
\* runInContext(e, fn of e), untracked(() => ...), makeEffectNode and
\* if (getValue(n) === x) ... else ..., setValue(c, getValue(n))
exec(s, prog, i) ==
    IF i > Len(prog) THEN s
    ELSE LET ins == prog[i]
             s1 == CASE ins[1] = "set" -> Call("setValue", s, <<ins[2], ins[3]>>)
                     [] ins[1] = "get" -> Call("getValue", s, <<ins[2]>>)
                     [] ins[1] = "throw" -> Throw(s, ClientFault)
                     [] ins[1] = "batch" -> Call("batch", s, <<ins[2]>>)
                     [] ins[1] = "run" -> Call("runInContext", s, <<ins[2]>>)
                     [] ins[1] = "untracked" -> Call("untracked", s, <<ins[2]>>)
                     [] ins[1] = "make" -> makeEffectNode(s)
                     [] ins[1] = "copy" ->
                          LET c == Call("getValue", s, <<ins[3]>>)
                          IN IF ~Ok(c) THEN c
                             ELSE Call("setValue", c, <<ins[2], c.ret>>)
                     [] ins[1] = "if" ->
                          LET c == Call("getValue", s, <<ins[2]>>)
                          IN IF ~Ok(c) THEN c
                             ELSE Call("exec", c, <<IF c.ret = ins[3] THEN ins[4]
                                                    ELSE ins[5], 1>>)
         IN IF Ok(s1) THEN Call("exec", s1, <<prog, i + 1>>) ELSE s1

\* derived.derive(): what the closure does besides reading, then its reads
derive(s, derived) ==
    LET s0 == Call("exec", [s EXCEPT !.derives[derived] = @ + 1], <<Pre(derived), 1>>)
        s1 == Call("readLoop", s0, <<Reads(derived), 1, <<>>>>)
    IN IF ~Ok(s0) THEN s0
       ELSE IF ~Ok(s1) THEN s1
       ELSE IF FnFaults(Fn(derived), SumSeq(s1.ret)) THEN Throw(s1, ClientFault)
       ELSE Return(s1, FnApply(Fn(derived), SumSeq(s1.ret)))

\* The closure an effect is run with in its context: () => getValue(a) ...
trackedBody(s, effect) ==
    LET s0 == Call("exec", Event(s, "fn"), <<Pre(effect), 1>>)
    IN IF Ok(s0) THEN Call("readLoop", s0, <<Reads(effect), 1, <<>>>>) ELSE s0

\* effect.notify(): () => callback(getValue(a), ...)
callback(s, effect) ==
    LET s1 == Call("readLoop", s, <<Reads(effect), 1, <<>>>>)
    IN IF Ok(s1)
       THEN Call("exec",
                 [s1 EXCEPT !.log = Append(@, [effect |-> effect, vals |-> s1.ret])],
                 <<Post(effect), 1>>)
       ELSE s1

\* Effect.errorHandler(error): the fault is rethrown in a microtask, after
\* the call of the client has returned.
errorHandler(s, effect) == Noted(s, "error", effect)

\* Effect.dispose()
dispose(s, effect) ==
    Call("disposeEffect",
         [s EXCEPT !.effectObjects.activeEffects = @ \ {effect}], <<effect>>)

\* The closure the constructor of Effect gives makeEffectNode:
\* try { this._destructor?.(); this._destructor = runInContext(...) ?? null }
\* catch (error) { Effect.errorHandler(error); this.dispose() }
effectNotify(s, effect) ==
    LET s1 == IF s.effectObjects.destructor[effect]
              THEN Noted(s, "cleanup", effect) ELSE s
        s2 == Call("runInContext", Noted(s1, "body", effect), <<effect>>)
    IN IF Ok(s2) THEN [s2 EXCEPT !.effectObjects.destructor[effect] = TRUE]
       ELSE Call("dispose", errorHandler([s2 EXCEPT !.exc = NoExc], effect), <<effect>>)

notify(s, effect) ==
    IF scenario \in ObjectScenarios THEN effectNotify(s, effect) ELSE callback(s, effect)

\* new Effect(sideEffect)
newEffect(s, effect) ==
    LET s0 == makeEffectNode(s)
        s1 == Call("notify", s0, <<effect>>)
    IN IF ~Ok(s0) THEN s0
       ELSE IF ~Ok(s1) THEN s1
       ELSE [s1 EXCEPT !.effectObjects.activeEffects = @ \cup {effect},
                       !.effectObjects.constructed = @ \cup {effect}]

\* A runInContext that leaves the sources past the cursor subscribed.
releaseLoop_None(s, target, i) == s

\* the finally block's loop of runInContext, i counted from 0 as there
releaseLoop(s, target, i) ==
    IF i >= Len(s.sources[target]) THEN s
    ELSE LET s1 == Call("unsubscribe", s, <<s.sources[target][i + 1], target>>)
         IN IF Ok(s1) THEN Call("releaseLoop", s1, <<target, i + 1>>) ELSE s1

\* A runInContext whose exit code is not in a finally block.
runInContext_NoFinally(s, target) ==
    IF s.running[target] THEN Throw(s, CyclicDependency)
    ELSE LET s0 == [s EXCEPT !.running[target] = TRUE,
                             !.currentTarget = target,
                             !.sourceIndex = 0]
             s1 == IF target \in Derived THEN derive(s0, target)
                   ELSE trackedBody(s0, target)
             f1 == Call("releaseLoop", s1, <<target, s1.sourceIndex>>)
         IN IF ~Ok(s1) THEN s1
            ELSE IF ~Ok(f1) THEN f1
            ELSE [f1 EXCEPT !.sources[target] = ArrayResize(@, f1.sourceIndex),
                            !.running[target] = FALSE,
                            !.currentTarget = s.currentTarget,
                            !.sourceIndex = s.sourceIndex]

\* runInContext(target, fn), fn being the closure target was built with
runInContext(s, target) ==
    IF s.running[target] THEN Throw(s, CyclicDependency)
    ELSE LET parentTarget == s.currentTarget
             parentSourceIndex == s.sourceIndex
             s0 == [s EXCEPT !.running[target] = TRUE,
                             !.currentTarget = target,
                             !.sourceIndex = 0]
             s1 == IF target \in Derived THEN derive(s0, target)
                   ELSE trackedBody(s0, target)
             f0 == [s1 EXCEPT !.exc = NoExc]
             f1 == Call("releaseLoop", f0, <<target, f0.sourceIndex>>)
             f2 == IF ~Ok(f1) THEN f1
                   ELSE [f1 EXCEPT
                           !.sources[target] = ArrayResize(@, f1.sourceIndex),
                           !.running[target] = FALSE,
                           !.currentTarget = parentTarget,
                           !.sourceIndex = parentSourceIndex]
         IN Finally(s1, f2)

\* The tracking half of getValue: records source at the cursor of the
\* current target's sources.
track(s, source) ==
    LET ct == s.currentTarget
        idx == s.sourceIndex + 1
        previousSource == IF idx <= Len(s.sources[ct]) THEN s.sources[ct][idx]
                          ELSE UNDEF
        s1 == IF source # previousSource
              THEN LET a == subscribe(
                               [s EXCEPT !.sources[ct] = ArraySet(@, idx, source)],
                               source, ct)
                   IN IF previousSource # UNDEF
                      THEN Call("unsubscribe", a, <<previousSource, ct>>)
                      ELSE a
              ELSE s
    IN IF Ok(s1)
       THEN [s1 EXCEPT !.sourceIndex = @ + 1,
                       !.tracked = Append(@, [target |-> ct, source |-> source])]
       ELSE s1

isTracked(s) ==
    \/ s.currentTarget \in Derived
    \/ s.currentTarget \in Effects /\ s.tracking[s.currentTarget]

getValue(s, source) ==
    LET s1 == IF isTracked(s) THEN track(s, source) ELSE s
        rb == s1.currentTarget \in Derived /\ s1.rollback[s1.currentTarget]
    IN IF ~Ok(s1) THEN s1
       ELSE IF source \in Cells
       THEN Return(s1, IF rb THEN s1.committedValue[source] ELSE s1.value[source])
       ELSE IF rb THEN unwrapCache(s1, s1.committedValue[source])
       ELSE LET s2 == Call("revalidate", s1, <<source>>)
            IN IF Ok(s2) THEN unwrapCache(s2, s2.value[source]) ELSE s2

\* An untracked that switches tracking off and on again at every level.
untracked_NotReentrant(s, prog) ==
    LET target == s.currentTarget
        body(h) == Call("exec", Event(h, "untracked fn"), <<prog, 1>>)
    IN IF target \in Derived THEN Throw(s, UntrackedInDerived)
       ELSE IF target = NONE THEN body(s)
       ELSE LET s1 == body([s EXCEPT !.tracking[target] = FALSE])
            IN Finally(s1, [s1 EXCEPT !.exc = NoExc, !.tracking[target] = TRUE])

\* untracked(run), run the statements prog
untracked(s, prog) ==
    LET target == s.currentTarget
        body(h) == Call("exec", Event(h, "untracked fn"), <<prog, 1>>)
    IN IF target \in Derived THEN Throw(s, UntrackedInDerived)
       ELSE IF target = NONE THEN body(s)
       ELSE IF ~s.tracking[target] THEN body(s)
       ELSE LET s1 == body([s EXCEPT !.tracking[target] = FALSE])
            IN Finally(s1, [s1 EXCEPT !.exc = NoExc, !.tracking[target] = TRUE])

\* A runEffect that notifies after each derived source it has revalidated.
runEffectLoop_PerSource(s, effect, i) ==
    IF i > Len(s.sources[effect])
    THEN [s EXCEPT !.invalidatedSourcesCount[effect] = 0]
    ELSE LET source == s.sources[effect][i]
         IN IF source = UNDEF THEN Throw(s, TypeError)
            ELSE IF source \in Derived
            THEN LET s1 == Call("revalidate", s, <<source>>)
                 IN IF ~Ok(s1) THEN s1
                    ELSE IF ~isInvalidated(s1, effect) THEN s1
                    ELSE Call("runEffectLoop", Call("notify", s1, <<effect>>), <<effect, i + 1>>)
            ELSE Call("runEffectLoop", s, <<effect, i + 1>>)

runEffectLoop(s, effect, i) ==
    IF i > Len(s.sources[effect])
    THEN Call("notify", [s EXCEPT !.invalidatedSourcesCount[effect] = 0], <<effect>>)
    ELSE LET source == s.sources[effect][i]
         IN IF source = UNDEF THEN Throw(s, TypeError)
            ELSE IF source \in Derived
            THEN LET s1 == Call("revalidate", s, <<source>>)
                 IN IF ~Ok(s1) THEN s1
                    ELSE IF ~isInvalidated(s1, effect) THEN s1
                    ELSE Call("runEffectLoop", s1, <<effect, i + 1>>)
            ELSE Call("runEffectLoop", s, <<effect, i + 1>>)

runEffect(s, effect) ==
    IF ~isInvalidated(s, effect) THEN s
    ELSE Call("runEffectLoop", Ran(s, effect), <<effect, 1>>)

runEffectsLoop(s, i) ==
    IF i > Len(s.invalidatedEffects) THEN s
    ELSE LET effect == s.invalidatedEffects[i]
         IN IF effect = TOMB THEN Call("runEffectsLoop", s, <<i + 1>>)
            ELSE LET s1 == Call("runEffect",
                                [s EXCEPT !.invalidatedEffects = SetDelete(@, effect)],
                                <<effect>>)
                 IN IF Ok(s1) THEN Call("runEffectsLoop", s1, <<i + 1>>) ELSE s1

\* A runEffects that runs the first pending effect only.
runEffects_First(s) ==
    LET q == s.invalidatedEffects
        first == {i \in 1..Len(q) : q[i] # TOMB /\ \A j \in 1..(i - 1) : q[j] = TOMB}
    IN IF first = {} THEN Event(s, "flush")
       ELSE LET effect == q[CHOOSE i \in first : TRUE]
            IN Call("runEffect",
                    [Event(s, "flush") EXCEPT !.invalidatedEffects = SetDelete(@, effect)],
                    <<effect>>)

runEffects(s) == Call("runEffectsLoop", Event(s, "flush"), <<1>>)

\* for (const source of effect.sources) unsubscribe(source, effect)
disposeEffectLoop(s, effect, i) ==
    IF i > Len(s.sources[effect]) THEN s
    ELSE LET s1 == Call("unsubscribe", s, <<s.sources[effect][i], effect>>)
         IN IF Ok(s1) THEN Call("disposeEffectLoop", s1, <<effect, i + 1>>) ELSE s1

\* A disposeEffect that unsubscribes from each distinct source once.
disposeEffect_OncePerSource(s, effect) ==
    Call("disposeEffectLoop",
         [s EXCEPT !.sources[effect] =
             SelectSeq([i \in 1..Len(@) |->
                           IF \E j \in 1..(i - 1) : @[j] = @[i] THEN TOMB ELSE @[i]],
                       LAMBDA n : n # TOMB)],
         <<effect, 1>>)

disposeEffect(s, effect) == Call("disposeEffectLoop", s, <<effect, 1>>)

\* A setValue that compares with the committed value instead of the draft.
sameValue_Committed(s, valueNode, x) == s.committedValue[valueNode] = x

\* valueNode.value === value
sameValue(s, valueNode, x) == s.value[valueNode] = x

setValue(s, valueNode, x) ==
    IF s.currentTarget \in Derived THEN Throw(s, SetInDerived)
    ELSE IF sameValue(s, valueNode, x) THEN Return(s, x)
    ELSE LET s0 == [s EXCEPT !.value[valueNode] = x]
         IN IF s0.status # "BATCHED"
            THEN LET s1 == Call("invalidate",
                                [s0 EXCEPT !.status = "ACTIVE",
                                           !.committedValue[valueNode] = x],
                                <<valueNode>>)
                     s2 == Call("cleanupNodes", [s1 EXCEPT !.status = "INACTIVE"], <<>>)
                     s3 == Call("runEffects", s2, <<>>)
                 IN IF ~Ok(s1) THEN s1
                    ELSE IF ~Ok(s2) THEN s2
                    ELSE IF ~Ok(s3) THEN s3
                    ELSE Return(s3, x)
            ELSE LET s1 == IF s0.committedValue[valueNode] = x
                           THEN Call("uninvalidate", s0, <<valueNode>>)
                           ELSE Call("invalidate", s0, <<valueNode>>)
                 IN IF Ok(s1) THEN Return(s1, x) ELSE s1

\* The finally block of the outermost batch(run).
settle(s) ==
    LET s1 == Call("cleanupNodes", commitSources([s EXCEPT !.status = "INACTIVE"]), <<>>)
    IN IF Ok(s1) THEN Call("runEffects", s1, <<>>) ELSE s1

\* A batch whose settlement is not in a finally block.
batch_Unprotected(s, prog) ==
    IF s.status = "BATCHED" THEN Call("exec", s, <<prog, 1>>)
    ELSE LET s1 == Call("exec", [s EXCEPT !.status = "BATCHED"], <<prog, 1>>)
         IN IF Ok(s1) THEN Finally(s1, Call("settle", s1, <<>>)) ELSE s1

\* A batch that settles when it exits, nested or not.
batch_AlwaysSettles(s, prog) ==
    LET s1 == Call("exec", [s EXCEPT !.status = "BATCHED"], <<prog, 1>>)
    IN Finally(s1, Call("settle", [s1 EXCEPT !.exc = NoExc], <<>>))

\* batch(run), run the statements prog
batch(s, prog) ==
    IF s.status = "BATCHED" THEN Call("exec", s, <<prog, 1>>)
    ELSE LET s1 == Call("exec", [s EXCEPT !.status = "BATCHED"], <<prog, 1>>)
         IN Finally(s1, Call("settle", [s1 EXCEPT !.exc = NoExc], <<>>))

\* The engine's functions call one another through Call, which runs the
\* named function on the heap s with the arguments a.
Call(f, s, a) ==
    CASE f = "unsubscribe" -> unsubscribe(s, a[1], a[2])
      [] f = "checkForDisposal" -> checkForDisposal(s, a[1])
      [] f = "disposeLoop" -> disposeLoop(s, a[1], a[2])
      [] f = "invalidate" -> invalidate(s, a[1])
      [] f = "invalidateLoop" -> invalidateLoop(s, a[1], a[2])
      [] f = "uninvalidate" -> uninvalidate(s, a[1])
      [] f = "uninvalidateLoop" -> uninvalidateLoop(s, a[1], a[2])
      [] f = "revalidate" -> revalidate(s, a[1])
      [] f = "rollbackNode" -> rollbackNode(s, a[1])
      [] f = "rollbackTargets" -> rollbackTargets(s, a[1], a[2])
      [] f = "runInContext" -> runInContext(s, a[1])
      [] f = "releaseLoop" -> releaseLoop(s, a[1], a[2])
      [] f = "getValue" -> getValue(s, a[1])
      [] f = "readLoop" -> readLoop(s, a[1], a[2], a[3])
      [] f = "runEffects" -> runEffects(s)
      [] f = "runEffectsLoop" -> runEffectsLoop(s, a[1])
      [] f = "runEffect" -> runEffect(s, a[1])
      [] f = "runEffectLoop" -> runEffectLoop(s, a[1], a[2])
      [] f = "cleanupNodes" -> cleanupNodes(s)
      [] f = "cleanupLoop" -> cleanupLoop(s, a[1])
      [] f = "setValue" -> setValue(s, a[1], a[2])
      [] f = "settle" -> settle(s)
      [] f = "exec" -> exec(s, a[1], a[2])
      [] f = "untracked" -> untracked(s, a[1])
      [] f = "batch" -> batch(s, a[1])
      [] f = "disposeEffectLoop" -> disposeEffectLoop(s, a[1], a[2])
      [] f = "disposeEffect" -> disposeEffect(s, a[1])
      [] f = "notify" -> notify(s, a[1])
      [] f = "dispose" -> dispose(s, a[1])
      [] f = "newEffect" -> newEffect(s, a[1])

\* ------------------------------------------------------- the state machine
NoCells == [c \in Cells |-> 0]

InitIn(scenarios) ==
    /\ scenario \in scenarios
    /\ value = [n \in Sources |-> IF n \in Cells THEN 0 ELSE UninitializedCache(0)]
    /\ committedValue =
           [n \in Sources |-> IF n \in Cells THEN 0 ELSE UninitializedCache(0)]
    /\ targets = [n \in Sources |-> <<>>]
    /\ sources = [n \in Targets |-> <<>>]
    /\ invalidatedSourcesCount = [n \in Targets |-> 0]
    /\ running = [n \in Targets |-> FALSE]
    /\ rollback = [n \in Derived |-> FALSE]
    /\ tracking = [n \in Effects |-> TRUE]
    /\ currentTarget = NONE
    /\ sourceIndex = 0
    /\ status = "INACTIVE"
    /\ uncommittedSources = <<>>
    /\ invalidatedEffects = <<>>
    /\ possiblyInvalidatedDerived = <<>>
    /\ batchDepth = 0
    /\ opened = NoCells
    /\ effectObjects = [activeEffects |-> {}, constructed |-> {},
                        destructor |-> [e \in Effects |-> FALSE]]

Init == InitIn(ScenarioNames)

\* The counters stay within the bound of the model.
InBounds(t) ==
    \A n \in Targets :
        /\ t.invalidatedSourcesCount[n] <= MaxCount
        /\ t.invalidatedSourcesCount[n] >= 0 - MaxCount

\* The call has returned to the client with the heap t: no iterator is left,
\* so the deleted entries go.
Apply(t) ==
    /\ InBounds(t)
    /\ value' = t.value
    /\ committedValue' = t.committedValue
    /\ targets' = [n \in Sources |-> MapCompact(t.targets[n])]
    /\ sources' = t.sources
    /\ invalidatedSourcesCount' = t.invalidatedSourcesCount
    /\ running' = t.running
    /\ rollback' = t.rollback
    /\ tracking' = t.tracking
    /\ currentTarget' = t.currentTarget
    /\ sourceIndex' = t.sourceIndex
    /\ status' = t.status
    /\ uncommittedSources' = SetCompact(t.uncommittedSources)
    /\ invalidatedEffects' = SetCompact(t.invalidatedEffects)
    /\ possiblyInvalidatedDerived' = SetCompact(t.possiblyInvalidatedDerived)
    /\ effectObjects' = t.effectObjects
    /\ UNCHANGED scenario

\* The heap a call of the client leaves, from the current state.
AfterSetValue(valueNode, x) == Call("setValue", Heap, <<valueNode, x>>)
AfterGetValue(source) == Call("getValue", Heap, <<source>>)
AfterRunInContext(effect) == Call("runInContext", Heap, <<effect>>)
AfterSettle == Call("settle", Heap, <<>>)
AfterDisposeEffect(effect) == Call("disposeEffect", Heap, <<effect>>)
AfterNewEffect(effect) == Call("newEffect", Heap, <<effect>>)
AfterDispose(effect) == Call("dispose", Heap, <<effect>>)

\* The heap t as the next call of the client finds it.
Then(t) ==
    [t EXCEPT !.ret = NullV, !.exc = NoExc, !.log = <<>>,
              !.derives = [d \in Derived |-> 0], !.resolved = <<>>,
              !.trace = <<>>, !.tracked = <<>>, !.sched = <<>>]

\* setValue(valueNode, x) called by the client
SetValue(valueNode, x) ==
    /\ Apply(AfterSetValue(valueNode, x))
    /\ UNCHANGED <<batchDepth, opened>>

\* getValue(source) called by the client, outside any target's context
GetValue(source) ==
    /\ Apply(AfterGetValue(source))
    /\ UNCHANGED <<batchDepth, opened>>

\* runInContext(effect, () => getValue(a) ...) called by the client
RunInContext(effect) ==
    /\ Apply(AfterRunInContext(effect))
    /\ UNCHANGED <<batchDepth, opened>>

\* The client enters batch(run) with no batch open.
BatchEnter ==
    /\ batchDepth = 0
    /\ batchDepth' = 1
    /\ opened' = [c \in Cells |-> value[c]]
    /\ Apply(IF status = "BATCHED" THEN Heap ELSE [Heap EXCEPT !.status = "BATCHED"])

\* run() of the outermost batch(run) has returned: its finally block
BatchExit ==
    /\ batchDepth = 1
    /\ batchDepth' = 0
    /\ opened' = NoCells
    /\ Apply(AfterSettle)

\* disposeEffect(effect) called by the client
DisposeEffect(effect) ==
    /\ Apply(AfterDisposeEffect(effect))
    /\ UNCHANGED <<batchDepth, opened>>

\* new Effect(sideEffect) called by the client, once per Effect
NewEffect(effect) ==
    /\ effect \notin effectObjects.constructed
    /\ Apply(AfterNewEffect(effect))
    /\ UNCHANGED <<batchDepth, opened>>

\* effect.dispose() called by the client on an Effect it has built
DisposeObject(effect) ==
    /\ effect \in effectObjects.constructed
    /\ Apply(AfterDispose(effect))
    /\ UNCHANGED <<batchDepth, opened>>

Write == \E valueNode \in UsedCells, x \in Val : SetValue(valueNode, x)
Read == \E source \in UsedSources : GetValue(source)
Observe == \E effect \in UsedEffects : RunInContext(effect)

Next == Write \/ Read \/ Observe \/ BatchEnter \/ BatchExit

BatchScenarios == {"direct", "derived", "sat", "twocell"}

Spec == InitIn(BatchScenarios) /\ [][Next]_vars

\* The graphs over one cell, for the properties of batch that are checked
\* with a closure for every statement it can make.
SpecBatch == InitIn({"direct", "derived", "sat"}) /\ [][Next]_vars

\* The engine used without batch: every write settles at once.
NextEager == Write \/ Read \/ Observe

SpecEager == Init /\ [][NextEager]_vars

\* Effects are disposed as well, on graphs with duplicate reads.
Dispose == \E effect \in UsedEffects : DisposeEffect(effect)

NextLife == Write \/ Read \/ Observe \/ BatchEnter \/ BatchExit \/ Dispose

SpecLife == InitIn({"dupcell", "dupderived", "derived"}) /\ [][NextLife]_vars

\* A chain of derived nodes and duplicate reads of a derived node, with
\* batch.
SpecRoll == InitIn({"chain", "dupderived"}) /\ [][Next]_vars

\* The effect whose reads depend on a cell and stop at a fault.
SpecTrack == InitIn({"cond"}) /\ [][NextEager]_vars

\* Graphs with duplicate reads and a derived node between cell and effect,
\* with batch and no disposal of effects.
SpecEdge == InitIn({"dupcell", "dupderived", "derived"}) /\ [][Next]_vars

\* An effect whose callback writes a cell that another effect reads, directly
\* or through a derived node, with batch.
\* The client writes the cell the first effect reads; the other cell is
\* written by that effect's callback only.
WriteSource == \E x \in Val : SetValue("v", x)

NextRelay == WriteSource \/ Read \/ Observe \/ BatchEnter \/ BatchExit

SpecRelay == InitIn({"relay", "relayd"}) /\ [][NextRelay]_vars

\* Effect objects are built and disposed of by the client, which writes,
\* reads and batches but does not run their nodes in context itself.
Construct == \E effect \in UsedEffects : NewEffect(effect)
Discard == \E effect \in UsedEffects : DisposeObject(effect)

NextObject == Write \/ Read \/ BatchEnter \/ BatchExit \/ Construct \/ Discard

SpecObject == InitIn(ObjectScenarios) /\ [][NextObject]_vars

\* The graph with a derive closure that raises, with batch.
SpecFault == InitIn({"dfault"}) /\ [][Next]_vars

\* Graphs with a cycle and closures that call the engine in a derived
\* node's context.
CtxScenarios ==
    {"selfcycle", "cycle2", "cycle3", "dset", "dmake", "duntracked", "drun",
     "dsetnested", "duntrackednested", "euntracked"}

SpecCtx == InitIn(CtxScenarios) /\ [][NextEager]_vars

\* ------------------------------------------------------------ the claims
\* The notifications of effect in the log of heap t, in order.
NotifsOf(t, effect) == SelectSeq(t.log, LAMBDA r : r.effect = effect)

\* derived computes a function of one cell, read directly.
PureOfCell(derived) ==
    /\ derived \in Derived
    /\ Len(Reads(derived)) = 1
    /\ Reads(derived)[1] \in Cells

\* The target has run in its context: its sources are its closure's reads.
Tracked(target) == Reads(target) # <<>> /\ sources[target] = Reads(target)

\* What a source shows when the cells hold cellValue: the cell's value, or
\* the derive closure applied to what its reads show.
RECURSIVE Expect(_, _)
Expect(source, cellValue) ==
    IF source \in Cells THEN cellValue[source]
    ELSE FnApply(Fn(source),
                 SumSeq([i \in 1..Len(Reads(source)) |->
                             Expect(Reads(source)[i], cellValue)]))

\* c is the one cell the source depends on.
OnlyCell(source, c) ==
    \A c2 \in Cells : (source = c2 \/ ReadsCell(source, c2, 3)) <=> c2 = c

\* C1: after any un-batched writes, getValue on a derived node that
\* computes a pure function of a cell returns the function of the cell's
\* current value, and reading it again, at once or after a read of any
\* other source, returns the same without running the derive closure.
C1_Memoized ==
    \A d \in UsedDerived :
        LET t1 == AfterGetValue(d)
            t2 == Call("getValue", Then(t1), <<d>>)
        IN /\ Ok(t1) /\ t1.ret = Expect(d, value)
           /\ Ok(t2) /\ t2.ret = t1.ret /\ t2.derives[d] = 0
           /\ \A other \in UsedSources :
                  LET t3 == Call("getValue", Then(t1), <<other>>)
                      t4 == Call("getValue", Then(t3), <<d>>)
                  IN Ok(t4) /\ t4.ret = t1.ret /\ t4.derives[d] = 0

\* C2: an effect tracks a cell, or a derived node that is a function of the
\* cell.  An un-batched setValue on the cell that changes what the effect
\* tracks notifies the effect exactly once before it returns, and the
\* notified effect reads the new value; a setValue of the value the cell
\* holds notifies nobody.
C2_NotifyOnChange ==
    \A e \in UsedEffects :
        (/\ Tracked(e)
         /\ Len(Reads(e)) = 1
         /\ (Reads(e)[1] \in Cells \/ PureOfCell(Reads(e)[1]))) =>
            LET src == Reads(e)[1]
                c == IF src \in Cells THEN src ELSE Reads(src)[1]
            IN \A x \in Val :
                   LET t == AfterSetValue(c, x)
                       new == Expect(src, [value EXCEPT ![c] = x])
                   IN /\ Ok(t)
                      /\ new # Expect(src, value) =>
                             NotifsOf(t, e) = <<[effect |-> e, vals |-> <<new>>]>>
                      /\ x = value[c] => t.log = <<>>

\* C3: setValue with the value the cell's draft holds changes nothing: no
\* value, committedValue, counter, subscriber map, status or pending set,
\* and no derive closure or effect runs.
C3_SameValueNoOp ==
    \A c \in UsedCells :
        [AfterSetValue(c, value[c]) EXCEPT !.ret = NullV] = Heap

\* Inside a batch, a subscribed cell whose draft differs from its committed
\* value is written with the value of its draft.
C3_Witness ==
    \E c \in UsedCells :
        /\ status = "BATCHED"
        /\ value[c] # committedValue[c]
        /\ MapSize(targets[c]) > 0
        /\ AfterSetValue(c, value[c]).ret = value[c]

\* C4: an un-batched write notifies no effect more than once, in
\* particular not the effect that tracks two derived nodes over the cell.
C4_AtMostOncePerWrite ==
    \A e \in UsedEffects, c \in UsedCells, x \in Val :
        Len(NotifsOf(AfterSetValue(c, x), e)) <= 1

\* The effect of the diamond tracks both derived nodes and a write to the
\* cell, which invalidates it twice, notifies it once.
C4_Witness ==
    /\ scenario = "diamond"
    /\ sources["e1"] = <<"d1", "d2">>
    /\ \E x \in Val :
           /\ x # value["v"]
           /\ Len(NotifsOf(AfterSetValue("v", x), "e1")) = 1

\* C5: when an un-batched write to a cell notifies an effect that reads
\* several derived nodes depending on the cell, every value the effect reads
\* is the one the value written gives: never one of the new value beside
\* one of the old.
C5_GlitchFree ==
    \A e \in UsedEffects, c \in UsedCells :
        (/\ Len(Reads(e)) >= 2
         /\ \A j \in 1..Len(Reads(e)) :
                Reads(e)[j] \in Derived /\ OnlyCell(Reads(e)[j], c)) =>
            \A x \in Val :
                LET n == NotifsOf(AfterSetValue(c, x), e)
                IN \A i \in 1..Len(n) :
                       n[i].vals =
                           [j \in 1..Len(Reads(e)) |->
                               Expect(Reads(e)[j], [value EXCEPT ![c] = x])]

\* C6: d1 recomputes to the value it holds on every write (x & 0), and the
\* effect depends on d1 only through d2: no un-batched write to the cell
\* notifies the effect.
C6_StableShortCircuit ==
    scenario = "stable" =>
        \A x \in Val : NotifsOf(AfterSetValue("v", x), "e1") = <<>>

\* The effect tracks d2, d2 tracks d1, and a write of a new value makes the
\* flush recompute d1, which is found unchanged.
C6_Witness ==
    /\ scenario = "stable"
    /\ sources["e1"] = <<"d2">>
    /\ sources["d2"] = <<"d1">>
    /\ \E x \in Val :
           /\ x # value["v"]
           /\ \E i \in 1..Len(AfterSetValue("v", x).resolved) :
                  /\ AfterSetValue("v", x).resolved[i].node = "d1"
                  /\ AfterSetValue("v", x).resolved[i].unchanged

\* The whole graph of the scenario "partial" is tracked.
PartialTracked ==
    /\ scenario = "partial"
    /\ \A t \in UsedTargets : Tracked(t)

\* C7: d3 reads d1 and d2, both invalidated by a write.  When d1 has been
\* resolved as unchanged and d2 is still invalidated, d3 is still
\* invalidated; and the effect tracking d3 is notified, once and with the
\* new value, by every write that changes d2's value.
C7_PartialInvalidation ==
    PartialTracked =>
        \A x \in Val :
            LET t == AfterSetValue("v", x)
            IN /\ \A i \in 1..Len(t.resolved) :
                      (/\ t.resolved[i].node = "d1"
                       /\ t.resolved[i].unchanged
                       /\ t.resolved[i].counts["d2"] > 0) =>
                          t.resolved[i].counts["d3"] > 0
               /\ x # value["v"] =>
                      NotifsOf(t, "e1") = <<[effect |-> "e1", vals |-> <<x>>]>>

\* C8: while a batch is open no write notifies an effect; the settlement
\* notifies no effect more than once; and an effect that tracks sources
\* whose cells hold their values of the batch's opening is notified exactly
\* once by the settlement after a write that changes what it tracks.
C8_BatchAtomicity ==
    batchDepth = 1 =>
        /\ \A c \in UsedCells, x \in Val : AfterSetValue(c, x).log = <<>>
        /\ \A e \in UsedEffects : Len(NotifsOf(AfterSettle, e)) <= 1
        /\ \A e \in UsedEffects, c \in UsedCells, x \in Val :
               (/\ Tracked(e)
                /\ \A c2 \in Cells : ReadsCell(e, c2, 3) => value[c2] = opened[c2]
                /\ \E j \in 1..Len(Reads(e)) :
                       Expect(Reads(e)[j], [value EXCEPT ![c] = x])
                           # Expect(Reads(e)[j], value)) =>
                   Len(NotifsOf(Call("settle", Then(AfterSetValue(c, x)), <<>>),
                                e)) = 1

\* C9: when the batch settles with every cell an effect depends on holding
\* the value it had when the batch was opened, whatever was written to it
\* in between, the settlement does not notify the effect.
C9_RevertSuppresses ==
    batchDepth = 1 =>
        \A e \in UsedEffects :
            (\A c \in Cells : ReadsCell(e, c, 3) => value[c] = opened[c]) =>
                NotifsOf(AfterSettle, e) = <<>>

\* C10: whenever no batch is open, the draft of every cell and of every
\* derived node is its committed value.
C10_CommittedWhenSettled ==
    batchDepth = 0 => \A n \in UsedSources : ~isUncommitted(Heap, n)

\* What a call leaves behind for the client to observe: the notifications
\* it made and the graph, a Cache object taken by its content and by
\* whether the node's draft and committed value are one object.
Content(t, field, n) ==
    IF n \in Cells THEN [type |-> "VALUE", value |-> t[field][n]]
    ELSE [type |-> t[field][n].type, value |-> t[field][n].value]

Outcome(t) ==
    [log |-> t.log,
     value |-> [n \in UsedSources |-> Content(t, "value", n)],
     committedValue |-> [n \in UsedSources |-> Content(t, "committedValue", n)],
     sameObject |-> [d \in UsedDerived |-> t.value[d].ref = t.committedValue[d].ref],
     invalidatedSourcesCount |-> [n \in UsedTargets |-> t.invalidatedSourcesCount[n]],
     targets |-> [n \in UsedSources |-> MapCompact(t.targets[n])],
     invalidatedEffects |-> SetCompact(t.invalidatedEffects),
     possiblyInvalidatedDerived |-> SetCompact(t.possiblyInvalidatedDerived),
     uncommittedSources |-> SetCompact(t.uncommittedSources),
     status |-> t.status]

\* C11: with no batch open, batch(() => setValue(v, x)) and setValue(v, x)
\* make the same notifications and leave the same graph: values, committed
\* values, counters, subscriber maps, pending sets and status.
C11_BatchIsDeferral ==
    status = "INACTIVE" =>
        \A c \in UsedCells, x \in Val :
            Outcome(Call("batch", Heap, <<<<<<"set", c, x>>>>>>))
                = Outcome(AfterSetValue(c, x))

\* Closures for batch: a write or a read or nothing, and the same followed
\* by a fault.
Bodies ==
    {<<>>} \cup {<<<<"set", c, x>>>> : c \in UsedCells, x \in Val}
           \cup {<<<<"get", n>>>> : n \in UsedSources}
           \cup {<<<<"set", c, x>>, <<"get", n>>>> :
                    c \in UsedCells, x \in Val, n \in UsedDerived}

Faulting(body) == Append(body, <<"throw">>)

\* The steps of a settlement among the steps the engine has taken.
Settlement(t) == SelectSeq(t.trace, LAMBDA e : e \in {"commit", "sweep", "flush"})

\* C12: the outermost batch whose closure raises still sets the status to
\* INACTIVE and commits, sweeps and flushes once, in that order, leaving
\* what the batch of the same closure without the fault leaves, and the
\* closure's fault reaches the caller of batch.
C12_SettlesOnFault ==
    status = "INACTIVE" =>
        \A body \in Bodies :
            LET t == Call("batch", Heap, <<Faulting(body)>>)
                u == Call("batch", Heap, <<body>>)
            IN /\ t.status = "INACTIVE"
               /\ Settlement(t) = <<"commit", "sweep", "flush">>
               /\ Outcome(t) = Outcome(u)
               /\ Ok(u)
               /\ t.exc = ClientFault

\* A batch writes a cell and raises, and its settlement notifies an effect.
C12_Witness ==
    /\ status = "INACTIVE"
    /\ \E c \in UsedCells, x \in Val :
          LET t == Call("batch", Heap, <<Faulting(<<<<"set", c, x>>>>)>>)
          IN /\ t.exc = ClientFault
             /\ t.log # <<>>
             /\ t.value[c] # value[c]

\* Closures that write one cell or do nothing.
Writes == {<<>>} \cup {<<<<"set", c, x>>>> : c \in UsedCells, x \in Val}

\* C13: batch called while a batch is open only runs its closure: it leaves
\* what running the closure's statements leaves, with the closure's result
\* or fault, the status BATCHED, no commit, sweep or flush, no notification.
\* A batch that nests a batch settles once, as the batch of the same
\* statements without the nesting does.
C13_Reentrant ==
    /\ status = "BATCHED" =>
           \A body \in Bodies \cup {Faulting(b) : b \in Bodies} :
               LET t == Call("batch", Heap, <<body>>)
               IN /\ t = Call("exec", Heap, <<body, 1>>)
                  /\ t.status = "BATCHED"
                  /\ Settlement(t) = <<>>
                  /\ t.log = <<>>
    /\ status = "INACTIVE" =>
           \A inner \in Writes, rest \in Writes :
               LET t == Call("batch", Heap, <<<<<<"batch", inner>>>> \o rest>>)
               IN /\ Settlement(t) = <<"commit", "sweep", "flush">>
                  /\ t.status = "INACTIVE"
                  /\ Outcome(t) = Outcome(Call("batch", Heap, <<inner \o rest>>))

\* A batch is open with an effect pending, and a nested batch writes a cell
\* an effect has subscribed to.
C13_Witness ==
    /\ status = "BATCHED"
    /\ SetCompact(invalidatedEffects) # <<>>
    /\ \E c \in UsedCells, x \in Val :
          LET t == Call("batch", Heap, <<<<<<"set", c, x>>>>>>)
          IN /\ t.value[c] # value[c]
             /\ t.ret = x
             /\ MapSize(targets[c]) > 0

\* The derived node has no cache, no sources and no place in the
\* subscriber map of any source.
Disposed(t, derived) ==
    /\ t.value[derived].type = "UNINITIALIZED"
    /\ SetCompact(t.sources[derived]) = <<>>
    /\ \A n \in UsedSources : MapGet(t.targets[n], derived) = 0

\* C14: a valid derived node without subscribers that has subscribed to a
\* cell is disposed by the time an un-batched setValue that changes the cell
\* returns: cache UNINITIALIZED, sources empty, gone from the cell's map.
C14_DisposedOnInvalidation ==
    \A d \in UsedDerived, c \in UsedCells, x \in Val :
        (/\ status = "INACTIVE"
         /\ MapSize(targets[d]) = 0
         /\ MapGet(targets[c], d) > 0
         /\ invalidatedSourcesCount[d] = 0
         /\ x # value[c])
        => Disposed(AfterSetValue(c, x), d)

\* No effect has subscribed to anything: every derived node is unobserved.
Unobserved == \A e \in UsedEffects : SetCompact(sources[e]) = <<>>

\* C15: with no effect subscribed, after an un-batched write that changes a
\* cell every invalidated derived node, in a chain or a diamond as well,
\* has an UNINITIALIZED cache.
C15_CascadingDisposal ==
    \A c \in UsedCells, x \in Val :
        (status = "INACTIVE" /\ Unobserved /\ x # value[c])
        => LET t == AfterSetValue(c, x)
           IN \A d \in UsedDerived :
                  isInvalidated(t, d) => t.value[d].type = "UNINITIALIZED"

\* The call that left t disposed no derived node and emptied no node's
\* sources.
NoDisposal(t) ==
    /\ \A i \in 1..Len(t.trace) : t.trace[i] # "dispose"
    /\ \A d \in UsedDerived : sources[d] # <<>> => SetCompact(t.sources[d]) # <<>>

\* Every disposal in the steps of t comes after a sweep has begun.
DisposalsAfterSweep(t) ==
    \A i \in 1..Len(t.trace) :
        t.trace[i] = "dispose" => \E j \in 1..(i - 1) : t.trace[j] = "sweep"

\* While a batch is open no call disposes a derived node or empties its
\* sources, and an un-batched write disposes in its sweep only.
Deferred ==
    /\ status = "BATCHED" =>
           /\ \A c \in UsedCells, x \in Val : NoDisposal(AfterSetValue(c, x))
           /\ \A n \in UsedSources : NoDisposal(AfterGetValue(n))
           /\ \A e \in UsedEffects : NoDisposal(AfterRunInContext(e))
    /\ status = "INACTIVE" =>
           \A c \in UsedCells, x \in Val : DisposalsAfterSweep(AfterSetValue(c, x))

\* A derived node that a write inside a batch leaves invalidated without
\* subscribers is in the pending set and is disposed when the batch has
\* settled.
DisposedAtSettlement ==
    status = "INACTIVE" =>
        \A d \in UsedDerived, c \in UsedCells, x \in Val :
            LET open == Call("setValue", [Heap EXCEPT !.status = "BATCHED"], <<c, x>>)
            IN (/\ ~isInvalidated(Heap, d)
                /\ isInvalidated(open, d)
                /\ MapSize(open.targets[d]) = 0)
               => /\ SetHas(open.possiblyInvalidatedDerived, d)
                  /\ Disposed(Call("batch", Heap, <<<<<<"set", c, x>>>>>>), d)

\* The settlement disposes no derived node that is valid or has a
\* subscriber when the batch exits.
OnlyIfStillEligible ==
    status = "BATCHED" =>
        \A d \in UsedDerived :
            (~isInvalidated(Heap, d) \/ MapSize(targets[d]) > 0)
            => (AfterSettle.value[d].type = "UNINITIALIZED"
                    => value[d].type = "UNINITIALIZED")

\* C16: disposal waits for the settlement: while the status is not INACTIVE
\* no derived node is disposed, the nodes that became invalidated without
\* subscribers in the batch are disposed when it settles, and the
\* settlement disposes only nodes still invalidated without subscribers.
C16_DisposalDeferred ==
    /\ Deferred
    /\ DisposedAtSettlement
    /\ OnlyIfStillEligible

\* The derive closure of derived reads derived, directly or through other
\* derived nodes.
OnCycle(derived) == ReadsCell(derived, derived, 3)

\* C17: getValue on a derived node that reads itself, directly or through
\* other derived nodes, raises CyclicDependency to its caller.
C17_CycleRaises ==
    \A d \in UsedDerived :
        OnCycle(d) => AfterGetValue(d).exc = CyclicDependency

\* The statements the closure prog reaches, its own and those of the
\* closures it runs: the cells it writes and the kinds of call it makes.
RECURSIVE SetsOf(_, _)
SetsOf(prog, fuel) ==
    UNION {IF prog[i][1] = "set" THEN {prog[i][2]}
           ELSE IF fuel > 0 /\ prog[i][1] = "run" THEN SetsOf(Pre(prog[i][2]), fuel - 1)
           ELSE IF fuel > 0 /\ prog[i][1] \in {"batch", "untracked"}
           THEN SetsOf(prog[i][2], fuel - 1)
           ELSE {} : i \in 1..Len(prog)}

RECURSIVE CallsOf(_, _)
CallsOf(prog, fuel) ==
    UNION {{prog[i][1]} \cup
           (IF fuel > 0 /\ prog[i][1] = "run" THEN CallsOf(Pre(prog[i][2]), fuel - 1)
            ELSE IF fuel > 0 /\ prog[i][1] \in {"batch", "untracked"}
            THEN CallsOf(prog[i][2], fuel - 1)
            ELSE {}) : i \in 1..Len(prog)}

\* C18: when the evaluation of a derived node reaches a setValue, in its own
\* closure or in an effect's closure run inside it, getValue of the node
\* raises "Cannot set value in derived context." and the cell's value, its
\* committedValue, its subscriber map and its subscribers' counters are as
\* before.
C18_NoWriteUnderDerived ==
    \A d \in UsedDerived :
        \A c \in SetsOf(Pre(d), 2) :
            LET t == AfterGetValue(d)
            IN t.derives[d] > 0 =>
                   /\ t.exc = SetInDerived
                   /\ t.value[c] = value[c]
                   /\ t.committedValue[c] = committedValue[c]
                   /\ MapCompact(t.targets[c]) = targets[c]
                   /\ \A n \in UsedTargets :
                          MapGet(targets[c], n) > 0 =>
                              t.invalidatedSourcesCount[n] = invalidatedSourcesCount[n]

\* The faults the engine raises for a call made in the wrong context.
ContextMisuse == {SetInDerived, EffectInDerived, UntrackedInDerived}

\* The closures of the effects ran n times in the steps of t.
RunsOfFn(t) == Len(SelectSeq(t.trace, LAMBDA e : e = "fn"))

\* C19: when the evaluation of a derived node reaches runInContext of an
\* effect, getValue of the node raises a context-misuse fault and the
\* effect's closure does not run.
C19_NoEffectFrameUnderDerived ==
    \A d \in UsedDerived :
        "run" \in CallsOf(Pre(d), 2) =>
            LET t == AfterGetValue(d)
            IN t.derives[d] > 0 => (t.exc \in ContextMisuse /\ RunsOfFn(t) = 0)

\* The body given to untracked ran n times in the steps of t.
RunsOfUntracked(t) == Len(SelectSeq(t.trace, LAMBDA e : e = "untracked fn"))

\* C20: when the evaluation of a derived node reaches untracked, in its own
\* closure or in an effect's closure run inside it, getValue of the node
\* raises a context-misuse fault and the body given to untracked does not
\* run.
C20_NoUntrackedUnderDerived ==
    \A d \in UsedDerived :
        "untracked" \in CallsOf(Pre(d), 2) =>
            LET t == AfterGetValue(d)
            IN t.derives[d] > 0 => (t.exc \in ContextMisuse /\ RunsOfUntracked(t) = 0)

\* C21: getValue on a derived node that holds a cached fault raises that
\* fault and does not run the closure while the node is not invalidated;
\* once the node is invalidated getValue runs the closure again and the
\* closure's outcome for the cell's value, a fault or a value, is what it
\* raises or returns and what the cache holds.
C21_FaultCached ==
    \A d \in UsedDerived :
        value[d].type = "ERROR" =>
            LET t == AfterGetValue(d)
            IN /\ ~isInvalidated(Heap, d) =>
                      /\ t.exc = value[d].error
                      /\ t.derives[d] = 0
                      /\ t.value[d] = value[d]
               /\ isInvalidated(Heap, d) =>
                      \A c \in UsedCells :
                          OnlyCell(d, c) =>
                              /\ t.derives[d] = 1
                              /\ ~isInvalidated(t, d)
                              /\ IF FnFaults(Fn(d), value[c])
                                 THEN /\ t.exc = ClientFault
                                      /\ t.value[d].type = "ERROR"
                                 ELSE /\ Ok(t)
                                      /\ t.ret = FnApply(Fn(d), value[c])
                                      /\ t.value[d].type = "VALUE"

\* A derived node holds the fault its closure raised and is read again.
C21_Witness ==
    \E d \in UsedDerived :
        /\ value[d].type = "ERROR"
        /\ value[d].error = ClientFault
        /\ ~isInvalidated(Heap, d)
        /\ AfterGetValue(d).exc = ClientFault

\* C22: after disposeEffect(effect) has returned no source's subscriber map
\* holds an entry for the effect.
C22_DisposedEffectUnsubscribed ==
    \A e \in UsedEffects :
        LET t == AfterDisposeEffect(e)
        IN Ok(t) /\ \A n \in Sources : MapGet(t.targets[n], e) = 0

\* An effect that has read a source twice and holds the count 2 in its
\* subscriber map is disposed.
C22_Witness ==
    \E e \in UsedEffects, n \in UsedSources :
        /\ MapGet(targets[n], e) = 2
        /\ MapGet(AfterDisposeEffect(e).targets[n], e) = 0

\* C23: no call of the client raises "Unwrapping uninitialized cache.",
\* the derive closures raising nothing themselves.
C23_NoUnwrapUninitialized ==
    /\ \A c \in UsedCells, x \in Val : AfterSetValue(c, x).exc # UnwrapUninitialized
    /\ \A n \in UsedSources : AfterGetValue(n).exc # UnwrapUninitialized
    /\ \A e \in UsedEffects :
           /\ AfterRunInContext(e).exc # UnwrapUninitialized
           /\ AfterDisposeEffect(e).exc # UnwrapUninitialized
    /\ status = "BATCHED" => AfterSettle.exc # UnwrapUninitialized

\* The heap while the closure of the effect parent is running and has made
\* its first k reads; with NONE for parent, the heap between calls.
InFrame(parent, k) ==
    IF parent = NONE THEN Heap
    ELSE [Heap EXCEPT !.running[parent] = TRUE,
                      !.currentTarget = parent,
                      !.sourceIndex = k]

\* C24: when runInContext(target, fn) exits, by return or by a fault of fn,
\* currentTarget and sourceIndex are what they were at the call and
\* target.running is false, at the top level and inside the frame of an
\* effect; called for the target whose frame is open it raises
\* CyclicDependency and changes nothing.
C24_StackDiscipline ==
    \A target \in UsedTargets :
        /\ \A parent \in {NONE} \cup (UsedEffects \ {target}) :
               \A k \in 0..(IF parent = NONE THEN 0 ELSE Len(sources[parent])) :
                   LET t == Call("runInContext", InFrame(parent, k), <<target>>)
                   IN /\ t.currentTarget = parent
                      /\ t.sourceIndex = k
                      /\ ~t.running[target]
                      /\ parent # NONE => t.running[parent]
        /\ \A k \in 0..Len(sources[target]) :
               LET h == [Heap EXCEPT !.running[target] = TRUE,
                                     !.currentTarget = target,
                                     !.sourceIndex = k]
               IN Call("runInContext", h, <<target>>) = Throw(h, CyclicDependency)

\* runInContext exits by a fault of the closure inside the frame of an
\* effect that has made a read.
C24_Witness ==
    \E target \in UsedTargets, parent \in UsedEffects :
        /\ parent # target
        /\ Len(sources[parent]) > 0
        /\ LET t == Call("runInContext", InFrame(parent, 1), <<target>>)
           IN ~Ok(t) /\ t.currentTarget = parent /\ t.derives # Heap.derives

\* The sources target read by tracked getValue calls in the call that left
\* heap t, in read order with duplicates.
ReadsOf(t, target) ==
    LET q == SelectSeq(t.tracked, LAMBDA r : r.target = target)
    IN [i \in 1..Len(q) |-> q[i].source]

\* The occurrences of source n in the list a that the list b does not have
\* at the same position.
Moved(a, b, n) ==
    Cardinality({i \in 1..Len(a) : a[i] = n /\ (i > Len(b) \/ b[i] # n)})

\* The run of target that left heap t mirrored its reads: target.sources is
\* the list of its tracked reads, and each source has lost one subscription
\* per occurrence dropped from the previous list and gained one per
\* occurrence that is new at its position.
Mirrored(t, target) ==
    /\ t.sources[target] = ReadsOf(t, target)
    /\ ~t.running[target]
    /\ \A n \in Sources :
           MapGet(t.targets[n], target) =
               MapGet(targets[n], target) - Moved(sources[target], ReadsOf(t, target), n)
                   + Moved(ReadsOf(t, target), sources[target], n)

\* C25: after runInContext(target, fn) exits, by return or by fault,
\* target.sources is exactly the sequence of sources read by the tracked
\* getValue calls of that run, in read order with duplicates, and every
\* source of the previous list that was not read at the same position has
\* been unsubscribed once per dropped occurrence.  Checked for the effect
\* run by the client and for each derived node recomputed once in that run.
C25_SourcesMirrorReads ==
    \A effect \in UsedEffects :
        LET t == AfterRunInContext(effect)
        IN /\ Mirrored(t, effect)
           /\ \A d \in UsedDerived : t.derives[d] = 1 => Mirrored(t, d)

\* A run that exits by a fault after reading fewer sources than the
\* previous run, one of them new at its position.
C25_Witness ==
    \E effect \in UsedEffects :
        LET t == AfterRunInContext(effect)
        IN /\ ~Ok(t)
           /\ Len(ReadsOf(t, effect)) < Len(sources[effect])
           /\ \E n \in Sources : Moved(ReadsOf(t, effect), sources[effect], n) > 0

\* The number of occurrences of n in the list a.
Occurrences(a, n) == Cardinality({i \in 1..Len(a) : a[i] = n})

\* C26: edge multiplicity.  In every reachable state, for every source and
\* every target that is not running (no effect is disposed in the runs
\* checked), the subscription count stored for the target in source.targets
\* is the number of occurrences of source in target.sources, and the entry
\* is absent exactly when that number is zero.
C26_EdgeMultiplicity ==
    \A source \in Sources, target \in Targets :
        ~running[target] =>
            /\ MapGet(targets[source], target) = Occurrences(sources[target], source)
            /\ MapIndex(targets[source], target) = 0
                   <=> Occurrences(sources[target], source) = 0

\* A target subscribed twice to one source and a derived node that has been
\* disposed of after it was subscribed.
C26_Witness ==
    /\ \E source \in Sources, target \in Targets :
           MapGet(targets[source], target) = 2
    /\ \E valueNode \in UsedCells, x \in Val :
           LET t == AfterSetValue(valueNode, x)
           IN Ok(t) /\ \E i \in 1..Len(t.trace) : t.trace[i] = "dispose"

\* Closures given to untracked: a read, a read and a fault, a nested
\* untracked followed by a read, a nested untracked that raises.
UntrackedRuns ==
    UNION {{<<<<"get", n>>>>,
            <<<<"get", n>>, <<"throw">>>>,
            <<<<"untracked", <<<<"get", n>>, <<"throw">>>>>>>>}
           \cup {<<<<"untracked", <<<<"get", n>>>>>>, <<"get", m>>>> : m \in UsedSources}
           : n \in UsedSources}

\* The cells the closure of effect reads only inside untracked.
UntrackedCells(effect) ==
    {c \in UsedCells :
        /\ \E i \in 1..Len(Pre(effect)) :
               Pre(effect)[i] = <<"untracked", <<<<"get", c>>>>>>
        /\ \A i \in 1..Len(Reads(effect)) : Reads(effect)[i] # c}

\* The heap t left by a call made in the frame of effect has none of the
\* call's reads recorded for effect.
NothingRecorded(t, effect, k) ==
    /\ t.sources[effect] = sources[effect]
    /\ t.sourceIndex = k
    /\ ReadsOf(t, effect) = <<>>
    /\ \A n \in Sources : MapGet(t.targets[n], effect) = MapGet(targets[n], effect)

\* C27: untracked(fn) inside an effect frame records no dependency: what
\* fn reads is neither added to the effect's sources nor subscribed, and a
\* later write to a cell read only there does not notify the effect; the
\* tracking flag is true after the outermost untracked exits, by return or
\* by fault, and an untracked called while tracking is already off leaves
\* it off and has the outcome of its closure.
C27_UntrackedSuppresses ==
    \A effect \in UsedEffects :
        /\ \A k \in 0..Len(sources[effect]), prog \in UntrackedRuns :
               LET h == InFrame(effect, k)
                   t == Call("untracked", h, <<prog>>)
                   n == Call("untracked", [h EXCEPT !.tracking[effect] = FALSE], <<prog>>)
               IN /\ NothingRecorded(t, effect, k)
                  /\ t.tracking[effect]
                  /\ NothingRecorded(n, effect, k)
                  /\ ~n.tracking[effect]
                  /\ n.exc = t.exc /\ n.ret = t.ret
        /\ LET t == AfterRunInContext(effect)
           IN \A c \in UntrackedCells(effect) :
                  /\ Occurrences(t.sources[effect], c) = 0
                  /\ MapGet(t.targets[c], effect) = 0
                  /\ t.tracking[effect]
                  /\ \A x \in Val :
                         NotifsOf(Call("setValue", Then(t), <<c, x>>), effect) = <<>>

\* An effect that read a cell inside untracked and has run, a write to
\* that cell that notifies another effect, and a nested untracked that
\* raises in the effect's frame.
C27_Witness ==
    \E effect \in UsedEffects, other \in UsedEffects, c \in UsedCells :
        /\ c \in UntrackedCells(effect)
        /\ sources[effect] = Reads(effect)
        /\ \E x \in Val : NotifsOf(AfterSetValue(c, x), other) # <<>>
        /\ LET t == Call("untracked", InFrame(effect, 1),
                         <<<<<<"untracked", <<<<"get", c>>, <<"throw">>>>>>>>>>)
           IN t.exc = ClientFault /\ t.tracking[effect]

\* The cells written by the callback of an effect.
Relayed ==
    {c \in UsedCells :
        \E e \in UsedEffects : \E i \in 1..Len(Post(e)) :
            Post(e)[i][1] = "copy" /\ Post(e)[i][2] = c}

\* In the call that left heap t, every effect that became invalidated
\* after the flush had begun to run an effect was itself run later in the
\* call.
RunOnceQueued(t) ==
    \A i \in 1..Len(t.sched) :
        /\ t.sched[i].op = "queue"
        /\ \E j \in 1..(i - 1) : t.sched[j].op = "run"
        => \E k \in (i + 1)..Len(t.sched) :
               t.sched[k].op = "run" /\ t.sched[k].effect = t.sched[i].effect

\* The flush of the call that left heap t has drained the pending effects.
Flushed(t) ==
    Ok(t) =>
        /\ SetCompact(t.invalidatedEffects) = <<>>
        /\ \A e \in UsedEffects : ~isInvalidated(t, e)
        /\ RunOnceQueued(t)

\* C28: the pending effects are drained to exhaustion.  When a write
\* outside a batch or the settlement of a batch returns normally, no
\* effect is pending or invalidated, and every effect that became
\* invalidated while the flush was running another effect has itself been
\* run before the call returned.
C28_DrainedToExhaustion ==
    /\ status # "BATCHED" => \A c \in UsedCells, x \in Val : Flushed(AfterSetValue(c, x))
    /\ status = "BATCHED" => Flushed(AfterSettle)

\* A write whose flush runs an effect whose callback changes a cell, upon
\* which a second effect becomes invalidated and is notified after the
\* first in the same call.
C28_Witness ==
    /\ status # "BATCHED"
    /\ \E x \in Val, c \in Relayed, e \in UsedEffects, f \in UsedEffects :
           LET t == AfterSetValue("v", x)
           IN /\ Ok(t) /\ t.value[c] # value[c] /\ Post(e) # <<>> /\ e # f
              /\ \E i \in 2..Len(t.sched) :
                     /\ t.sched[i] = [op |-> "queue", effect |-> f]
                     /\ t.sched[i - 1] = [op |-> "run", effect |-> e]
              /\ Len(t.log) >= 2
              /\ t.log[1].effect = e /\ t.log[Len(t.log)].effect = f

\* The heap in which invalidate or uninvalidate of cell c reaches
\* rollback: setValue has just stored x in c.value.
Written(c, x) == [Heap EXCEPT !.value[c] = x]

\* The heap h while rollback(d) runs the derive closure of d, before the
\* closure's k-th read.
RollbackFrame(h, d, k) ==
    [h EXCEPT !.value[d] = h.committedValue[d], !.rollback[d] = TRUE,
              !.running[d] = TRUE, !.currentTarget = d, !.sourceIndex = k - 1]

\* The derived node u is upstream of target t.
RECURSIVE ReadsNode(_, _, _)
ReadsNode(t, u, fuel) ==
    \E i \in 1..Len(Reads(t)) :
        \/ Reads(t)[i] = u
        \/ fuel > 0 /\ Reads(t)[i] \in Derived /\ ReadsNode(Reads(t)[i], u, fuel - 1)

\* What getValue gives for a committed source: the committed value of a
\* cell, the value of a committed VALUE cache, the fault of a committed
\* ERROR cache.
GivesCommitted(h, g, u) ==
    IF u \in Cells THEN Ok(g) /\ g.ret = h.committedValue[u]
    ELSE CASE h.committedValue[u].type = "VALUE" ->
                Ok(g) /\ g.ret = h.committedValue[u].value
           [] h.committedValue[u].type = "ERROR" ->
                g.exc = h.committedValue[u].error
           [] OTHER -> FALSE

\* rollback(d) from heap h reads committed values, recomputes no upstream
\* node and leaves the count of d rescanned.
RollsBack(h, d) ==
    LET t == Call("rollbackNode", h, <<d>>)
    IN /\ \A k \in 1..Len(Reads(d)) :
              GivesCommitted(h, Call("getValue", RollbackFrame(h, d, k), <<Reads(d)[k]>>),
                             Reads(d)[k])
       /\ \A u \in UsedDerived : ReadsNode(d, u, 3) => t.derives[u] = 0
       /\ t.invalidatedSourcesCount[d] =
              Cardinality({i \in 1..Len(t.sources[d]) :
                              isInvalidatedOrUncommitted(t, t.sources[d][i])})

\* C29: during rollback of a derived node d, every getValue made by the
\* derive closure of d returns the committed value of the source instead
\* of its draft and recomputes no upstream derived node, and after the
\* rollback d.invalidatedSourcesCount is the number of entries of d.sources
\* that are uncommitted or invalidated.  Checked for every rollback a
\* batched write to a cell upstream of an uncommitted d can start.
C29_RollbackReadsCommitted ==
    status = "BATCHED" =>
        \A c \in UsedCells, x \in Val, d \in UsedDerived :
            x # value[c] /\ isUncommitted(Heap, d) /\ ReadsCell(d, c, 3)
                => RollsBack(Written(c, x), d)

\* C30: invalidate/uninvalidate round trip.  Inside a batch, from a state
\* in which cell c holds its committed value, setValue(c, x) with x
\* different from the committed value followed at once by
\* setValue(c, committedValue) leaves invalidatedSourcesCount of every
\* derived node and effect downstream of c as it was before the first
\* write.
C30_RoundTrip ==
    status = "BATCHED" =>
        \A c \in UsedCells, x \in Val :
            x # committedValue[c] /\ value[c] = committedValue[c] =>
                LET t == AfterSetValue(c, x)
                    u == Call("setValue", Then(t), <<c, committedValue[c]>>)
                IN \A n \in UsedTargets :
                       ReadsCell(n, c, 3) =>
                           u.invalidatedSourcesCount[n] = invalidatedSourcesCount[n]

\* C31: read-your-writes inside a transaction.  Inside a batch, between the
\* calls of the client (no rollback is running), getValue on a cell returns
\* the draft last written and getValue on a derived node returns its derive
\* closure evaluated over the current drafts.
C31_ReadYourWrites ==
    status = "BATCHED" =>
        /\ \A c \in UsedCells :
               Ok(AfterGetValue(c)) /\ AfterGetValue(c).ret = value[c]
        /\ \A d \in UsedDerived :
               Ok(AfterGetValue(d)) /\ AfterGetValue(d).ret = Expect(d, value)

\* C32: once an effect has been disposed, its notify callback is not
\* invoked again: not by the next write to a cell, outside a batch or
\* inside one, and not by the settlement of the batch in which it was
\* disposed.
C32_DisposedNeverNotified ==
    \A e \in UsedEffects :
        LET t == Then(AfterDisposeEffect(e))
        IN /\ Ok(AfterDisposeEffect(e))
           /\ \A c \in UsedCells, x \in Val :
                  NotifsOf(Call("setValue", t, <<c, x>>), e) = <<>>
           /\ status = "BATCHED" => NotifsOf(Call("settle", t, <<>>), e) = <<>>

\* The records of the operation op on effect in the call that left heap t.
NotedOf(t, op, effect) ==
    SelectSeq(t.sched, LAMBDA r : r.op = op /\ r.effect = effect)

\* The side effect of the Effect raised in the call that left heap t, and
\* the fault was handled as the claim says: handed to Effect.errorHandler
\* once per run that raised and kept from the caller, the Effect out of
\* Effect.activeEffects and subscribed to nothing, and no write that
\* follows runs its side effect.
FaultHandled(t, effect) ==
    /\ Ok(t)
    /\ Len(NotedOf(t, "error", effect)) = 1
    /\ effect \notin t.effectObjects.activeEffects
    /\ \A n \in Sources : MapGet(t.targets[n], effect) = 0
    /\ \A c \in UsedCells, x \in Val :
           NotedOf(Call("setValue", Then(t), <<c, x>>), "body", effect) = <<>>

\* The side effect of the Effect raises in the call that leaves heap t.
BodyRaises(t, effect) ==
    /\ NotedOf(t, "body", effect) # <<>>
    /\ t.value["v"] = 1

\* C33: when the side effect of an Effect raises, in the constructor or in
\* the flush of a write or of a batch, the fault is passed to
\* Effect.errorHandler exactly once and does not reach the caller, the
\* Effect is out of Effect.activeEffects and unsubscribed from every source
\* it had read, and no later write runs its side effect again.
C33_FailedEffectDisposed ==
    \A effect \in UsedEffects :
        /\ Pre(effect) # <<>> /\ effect \notin effectObjects.constructed =>
               LET t == AfterNewEffect(effect)
               IN BodyRaises(t, effect) => FaultHandled(t, effect)
        /\ \A c \in UsedCells, x \in Val :
               LET t == AfterSetValue(c, x)
               IN Pre(effect) # <<>> /\ BodyRaises(t, effect) => FaultHandled(t, effect)
        /\ status = "BATCHED" /\ Pre(effect) # <<>> /\ BodyRaises(AfterSettle, effect)
               => FaultHandled(AfterSettle, effect)

\* In the call that left heap t, every run of the side effect of the Effect
\* came right after a call of the cleanup callback the Effect held.
CleanedBeforeRerun(t, effect) ==
    /\ \A i \in 1..Len(t.sched) :
           t.sched[i] = [op |-> "body", effect |-> effect] =>
               i > 1 /\ t.sched[i - 1] = [op |-> "cleanup", effect |-> effect]
    /\ Len(NotedOf(t, "cleanup", effect)) = Len(NotedOf(t, "body", effect))

\* C34: the cleanup callback returned by the side effect of an Effect is
\* invoked before each rerun of the side effect and on disposal of the
\* Effect, once per run that returned it.  Checked for an Effect that
\* holds the callback of its last run: dispose() invokes it once, and a
\* write or a settlement invokes it once before each rerun.
C34_CleanupInvoked ==
    \A effect \in UsedEffects :
        effect \in effectObjects.constructed /\ effectObjects.destructor[effect] =>
            /\ effect \in effectObjects.activeEffects =>
                   Len(NotedOf(AfterDispose(effect), "cleanup", effect)) = 1
            /\ \A c \in UsedCells, x \in Val :
                   CleanedBeforeRerun(AfterSetValue(c, x), effect)
            /\ status = "BATCHED" => CleanedBeforeRerun(AfterSettle, effect)

\* C35: in every reachable state invalidatedSourcesCount of every derived
\* node and every effect is greater than or equal to zero.
C35_CountNonNegative ==
    \A n \in Targets : invalidatedSourcesCount[n] >= 0

\* The effect tracks the end of a chain: it has run in its context, and its
\* one source is a derived node whose one source is a derived node.
TracksChain(effect) ==
    /\ Tracked(effect)
    /\ Len(Reads(effect)) = 1 /\ Reads(effect)[1] \in Derived
    /\ Len(Reads(Reads(effect)[1])) = 1 /\ Reads(Reads(effect)[1])[1] \in Derived

\* C36: no lost notification in chains.  Outside a batch, for an effect
\* that tracks d2 = g(d1), d1 = f(v), every write that changes the value
\* of d2 notifies the effect before it returns.
C36_NoLostNotification ==
    status # "BATCHED" =>
        \A effect \in UsedEffects, c \in UsedCells, x \in Val :
            /\ TracksChain(effect)
            /\ Expect(Reads(effect)[1], [value EXCEPT ![c] = x])
                   # Expect(Reads(effect)[1], value)
            => NotifsOf(AfterSetValue(c, x), effect) # <<>>

\* The derived node ends a chain of three: its one source is a derived node
\* whose one source is a derived node whose one source is a cell.
EndsChain3(d) ==
    /\ d \in Derived
    /\ Len(Reads(d)) = 1 /\ Reads(d)[1] \in Derived
    /\ Len(Reads(Reads(d)[1])) = 1 /\ PureOfCell(Reads(Reads(d)[1])[1])

\* C37: no stale read in chains.  For d1 = f(v), d2 = g(d1), d3 = h(d2),
\* after any un-batched writes to v and reads of d2 and d3, getValue(d3)
\* returns h(g(f(v))) for the value v holds now.
C37_NoStaleRead ==
    status # "BATCHED" =>
        \A d \in UsedDerived :
            EndsChain3(d) =>
                LET t == AfterGetValue(d)
                IN Ok(t) /\ t.ret = Expect(d, value)

\* Nothing is pending: no target counts an invalidated source and no effect
\* waits for a settlement.
NothingPending ==
    /\ \A n \in UsedTargets : invalidatedSourcesCount[n] = 0
    /\ SetCompact(invalidatedEffects) = <<>>

\* C38: across consecutive batches the revert baseline is the last settled
\* value.  In a batch opened with nothing pending that has left cell c at
\* the value it held when the batch was opened, a write of another value to
\* c lowers no target's invalidatedSourcesCount, and the settlement that
\* follows notifies every effect that tracks c.
C38_RevertBaseline ==
    batchDepth = 1 /\ NothingPending =>
        \A c \in UsedCells, x \in Val :
            value[c] = opened[c] /\ x # value[c] =>
                LET t == AfterSetValue(c, x)
                IN /\ \A n \in UsedTargets :
                          t.invalidatedSourcesCount[n] >= invalidatedSourcesCount[n]
                   /\ \A e \in UsedEffects :
                          Tracked(e) /\ (\E i \in 1..Len(Reads(e)) : Reads(e)[i] = c) =>
                              NotifsOf(Call("settle", Then(t), <<>>), e) # <<>>

\* C39: the update status is INACTIVE whenever no engine operation is on
\* the call stack: with no batch open, after every setValue and every
\* batch exit of the client, returned or raised, UPDATE.status is INACTIVE.
C39_StatusInactiveAtRest ==
    batchDepth = 0 => status = "INACTIVE"

====
